---------------------------- MODULE Spec2Model ----------------------------
(***************************************************************************)
(* A model of four pieces of the AliRoot excerpt:                          *)
(*   - AliMUONReconstructor (MUON/AliMUONReconstructor.cxx): the clustering *)
(*     mode dispatch, the option handling and the lifecycle of the digit,   *)
(*     trigger and cluster stores;                                          *)
(*   - AliNanoAODStorage (STEER/AOD/AliNanoAODStorage.cxx): allocation and  *)
(*     assignment of the variable containers;                               *)
(*   - AliGenParam::Generate (EVGEN/AliGenParam.cxx): the sampling loop.    *)
(* Character strings are tuples of one-character strings, so that          *)
(* TString::ToUpper, TString::Contains and strstr are computed and not     *)
(* assumed.                                                                *)
(***************************************************************************)
EXTENDS Integers, Sequences, FiniteSets, TLC

VARIABLES
  cfType, cfResult, cfDone,          \* CreateClusterFinder: argument, result
  option, optWords, mode, combine, rec, log, ret,  \* AliMUONReconstructor
  objs, lastOp,                      \* two AliNanoAODStorage objects
  gen, genPar                        \* AliGenParam::Generate

finderVars == <<cfType, cfResult, cfDone>>
muonVars == <<option, optWords, mode, combine, rec, log, ret>>
nanoVars == <<objs, lastOp>>
genVars == <<gen, genPar>>
vars == <<cfType, cfResult, cfDone, option, optWords, mode, combine, rec, log, ret,
          objs, lastOp, gen, genPar>>

(***************************************************************************)
(* Bounds of the model.                                                    *)
(***************************************************************************)
MaxClusters == 1
MaxVars == 2
MaxNpart == 2
MaxKin == 2
MaxChildren == 2

(***************************************************************************)
(* Character strings.                                                      *)
(***************************************************************************)
LowerAlpha == <<"a","b","c","d","e","f","g","h","i","j","k","l","m","n","o","p","q","r","s","t","u","v","w","x","y","z">>
UpperAlpha == <<"A","B","C","D","E","F","G","H","I","J","K","L","M","N","O","P","Q","R","S","T","U","V","W","X","Y","Z">>

\* toupper() of one character: a lower-case letter becomes its upper-case
\* letter, every other character is kept.
UpperOf ==
  [c \in {LowerAlpha[i] : i \in 1..26} |->
     UpperAlpha[CHOOSE i \in 1..26 : LowerAlpha[i] = c]]
UpChar(c) == IF c \in DOMAIN UpperOf THEN UpperOf[c] ELSE c

\* tolower() of one character.
LowerOf ==
  [c \in {UpperAlpha[i] : i \in 1..26} |->
     LowerAlpha[CHOOSE i \in 1..26 : UpperAlpha[i] = c]]
LowChar(c) == IF c \in DOMAIN LowerOf THEN LowerOf[c] ELSE c

\* The characters of s, each changed by f (a tuple, built left to right).
RECURSIVE MapChars(_, _, _)
MapChars(s, i, up) ==
  IF i > Len(s) THEN << >>
  ELSE <<IF up THEN UpChar(s[i]) ELSE LowChar(s[i])>> \o MapChars(s, i + 1, up)

\* TString::ToUpper
ToUpper(s) == MapChars(s, 1, TRUE)

\* TString::ToLower
ToLower(s) == MapChars(s, 1, FALSE)

\* TString::Contains(pat) and strstr(s,pat) != 0 (exact case): pat occurs in
\* s as a contiguous substring.
Contains(s, pat) ==
  \E k \in 0..(Len(s) - Len(pat)) :
    \A j \in 1..Len(pat) : s[k + j] = pat[j]

\* The words the code compares with.
W_PRECLUSTERV2 == <<"P","R","E","C","L","U","S","T","E","R","V","2">>
W_PRECLUSTERV3 == <<"P","R","E","C","L","U","S","T","E","R","V","3">>
W_PRECLUSTER == <<"P","R","E","C","L","U","S","T","E","R">>
W_PEAKCOG == <<"P","E","A","K","C","O","G">>
W_PEAKFIT == <<"P","E","A","K","F","I","T">>
W_COG == <<"C","O","G">>
W_SIMPLEFITV3 == <<"S","I","M","P","L","E","F","I","T","V","3">>
W_SIMPLEFIT == <<"S","I","M","P","L","E","F","I","T">>
W_MLEM_DRAW == <<"M","L","E","M",":","D","R","A","W">>
W_MLEMV3 == <<"M","L","E","M","V","3">>
W_MLEMV2 == <<"M","L","E","M","V","2">>
W_MLEM == <<"M","L","E","M">>
W_NOCLUSTERING == <<"N","O","C","L","U","S","T","E","R","I","N","G">>
W_SAVEDIGITS == <<"S","A","V","E","D","I","G","I","T","S">>
W_DIGITSTOREV1 == <<"D","I","G","I","T","S","T","O","R","E","V","1">>
W_DIGITSTOREV2R == <<"D","I","G","I","T","S","T","O","R","E","V","2","R">>
W_DIGITSTOREV2S == <<"D","I","G","I","T","S","T","O","R","E","V","2","S">>
W_NOLOCALRECONSTRUCTION == <<"N","O","L","O","C","A","L","R","E","C","O","N","S","T","R","U","C","T","I","O","N">>
W_TRIGGERDISABLE == <<"T","R","I","G","G","E","R","D","I","S","A","B","L","E">>
W_NOFASTTRKDECODER == <<"N","O","F","A","S","T","T","R","K","D","E","C","O","D","E","R">>
W_NOFASTTRGDECODER == <<"N","O","F","A","S","T","T","R","G","D","E","C","O","D","E","R">>
W_NOFASTDECODERS == <<"N","O","F","A","S","T","D","E","C","O","D","E","R","S">>

\* "options should be a space separated string"
Sp(a, b) == a \o <<" ">> \o b

\* Input variants of a word: the letter cases a caller may write it in.
Capitalized(w) == [i \in 1..Len(w) |-> IF i = 1 THEN UpChar(w[i]) ELSE LowChar(w[i])]
Alternating(w) == [i \in 1..Len(w) |-> IF i % 2 = 0 THEN UpChar(w[i]) ELSE LowChar(w[i])]
LastLower(w) == [i \in 1..Len(w) |-> IF i = Len(w) THEN LowChar(w[i]) ELSE UpChar(w[i])]
CaseVariants(w) == {w, ToLower(w), Capitalized(w), Alternating(w), LastLower(w)}

(***************************************************************************)
(* AliMUONReconstructor::CreateClusterFinder.                              *)
(* A cluster finder is the chain of its classes, outermost first, each     *)
(* with the Bool_t its constructor was given (FALSE where it takes none);  *)
(* the null pointer is the empty chain.                                    *)
(***************************************************************************)
Obj(cls, flag) == [cls |-> cls, plot |-> flag]
NullFinder == << >>
PreClusterFinder == <<Obj("AliMUONPreClusterFinder", FALSE)>>
PreClusterFinderV2 == <<Obj("AliMUONPreClusterFinderV2", FALSE)>>
PreClusterFinderV3 == <<Obj("AliMUONPreClusterFinderV3", FALSE)>>
ClusterFinderCOG(pre) == <<Obj("AliMUONClusterFinderCOG", FALSE)>> \o pre
ClusterFinderPeakCOG(plot, pre) == <<Obj("AliMUONClusterFinderPeakCOG", plot)>> \o pre
ClusterFinderPeakFit(plot, pre) == <<Obj("AliMUONClusterFinderPeakFit", plot)>> \o pre
ClusterFinderSimpleFit(sub) == <<Obj("AliMUONClusterFinderSimpleFit", FALSE)>> \o sub
ClusterFinderMLEM(plot, pre) == <<Obj("AliMUONClusterFinderMLEM", plot)>> \o pre

\* A slip in the order of the tests: COG is tested before PEAKCOG.
CreateClusterFinder_CogFirst(clusterFinderType) ==
  LET opt == ToUpper(clusterFinderType) IN
  IF Contains(opt, W_PRECLUSTERV2) THEN PreClusterFinderV2
  ELSE IF Contains(opt, W_PRECLUSTERV3) THEN PreClusterFinderV3
  ELSE IF Contains(opt, W_PRECLUSTER) THEN PreClusterFinder
  ELSE IF Contains(opt, W_COG) THEN ClusterFinderCOG(PreClusterFinder)
  ELSE IF Contains(opt, W_PEAKCOG) THEN ClusterFinderPeakCOG(FALSE, PreClusterFinder)
  ELSE IF Contains(opt, W_PEAKFIT) THEN ClusterFinderPeakFit(FALSE, PreClusterFinder)
  ELSE IF Contains(opt, W_SIMPLEFITV3)
    THEN ClusterFinderSimpleFit(ClusterFinderCOG(PreClusterFinderV3))
  ELSE IF Contains(opt, W_SIMPLEFIT)
    THEN ClusterFinderSimpleFit(ClusterFinderCOG(PreClusterFinder))
  ELSE IF Contains(opt, W_MLEM_DRAW) THEN ClusterFinderMLEM(TRUE, PreClusterFinder)
  ELSE IF Contains(opt, W_MLEMV3) THEN ClusterFinderMLEM(FALSE, PreClusterFinderV3)
  ELSE IF Contains(opt, W_MLEMV2) THEN ClusterFinderMLEM(FALSE, PreClusterFinderV2)
  ELSE IF Contains(opt, W_MLEM) THEN ClusterFinderMLEM(FALSE, PreClusterFinder)
  ELSE NullFinder

CreateClusterFinder(clusterFinderType) ==
  LET opt == ToUpper(clusterFinderType) IN
  IF Contains(opt, W_PRECLUSTERV2) THEN PreClusterFinderV2
  ELSE IF Contains(opt, W_PRECLUSTERV3) THEN PreClusterFinderV3
  ELSE IF Contains(opt, W_PRECLUSTER) THEN PreClusterFinder
  ELSE IF Contains(opt, W_PEAKCOG) THEN ClusterFinderPeakCOG(FALSE, PreClusterFinder)
  ELSE IF Contains(opt, W_PEAKFIT) THEN ClusterFinderPeakFit(FALSE, PreClusterFinder)
  ELSE IF Contains(opt, W_COG) THEN ClusterFinderCOG(PreClusterFinder)
  ELSE IF Contains(opt, W_SIMPLEFITV3)
    THEN ClusterFinderSimpleFit(ClusterFinderCOG(PreClusterFinderV3))
  ELSE IF Contains(opt, W_SIMPLEFIT)
    THEN ClusterFinderSimpleFit(ClusterFinderCOG(PreClusterFinder))
  ELSE IF Contains(opt, W_MLEM_DRAW) THEN ClusterFinderMLEM(TRUE, PreClusterFinder)
  ELSE IF Contains(opt, W_MLEMV3) THEN ClusterFinderMLEM(FALSE, PreClusterFinderV3)
  ELSE IF Contains(opt, W_MLEMV2) THEN ClusterFinderMLEM(FALSE, PreClusterFinderV2)
  ELSE IF Contains(opt, W_MLEM) THEN ClusterFinderMLEM(FALSE, PreClusterFinder)
  ELSE NullFinder

\* The clustering modes the class documentation lists, and strings it does not.
DocumentedModes ==
  {W_SIMPLEFIT, W_SIMPLEFITV3, W_MLEM, W_MLEMV2, W_MLEMV3, W_PRECLUSTER,
   W_PRECLUSTERV2, W_PRECLUSTERV3, W_COG, W_PEAKCOG, W_PEAKFIT}
ClusterFinderTypes ==
  UNION {CaseVariants(w) : w \in DocumentedModes \cup {W_NOCLUSTERING, W_MLEM_DRAW}}
    \cup {<< >>, <<"F","I","T">>}

\* Before the call: the argument is chosen, nothing is returned yet.
FinderInit ==
  /\ cfType \in ClusterFinderTypes
  /\ cfResult = NullFinder
  /\ cfDone = FALSE

\* While another part of the program is looked at.
FinderIdle ==
  /\ cfType = << >>
  /\ cfResult = NullFinder
  /\ cfDone = FALSE

\* One call of CreateClusterFinder(clusterFinderType).
CallCreateClusterFinder ==
  /\ ~cfDone
  /\ cfResult' = CreateClusterFinder(cfType)
  /\ cfDone' = TRUE
  /\ UNCHANGED <<cfType, muonVars, nanoVars, genVars>>

\* The caller takes another clustering mode for the next call.
NextClusterFinderType ==
  /\ cfDone
  /\ cfType' \in ClusterFinderTypes
  /\ cfResult' = NullFinder
  /\ cfDone' = FALSE
  /\ UNCHANGED <<muonVars, nanoVars, genVars>>

FinderNext ==
  \/ CallCreateClusterFinder
  \/ NextClusterFinderType

(***************************************************************************)
(* AliMUONReconstructor.                                                   *)
(* A pointer is the empty tuple (null) or a one-element tuple holding the  *)
(* object.  rec holds the data members; log holds what the last call did   *)
(* with the trigger store and the cluster server (an observation, emptied  *)
(* when a call begins); ret holds what HasDigitConversion() returned.      *)
(* option is the option string and optWords what TString::Contains finds   *)
(* in it, computed when the string is set.                                 *)
(* The methods are operators on a context                                  *)
(* c = [o |-> data members, log |-> events]; a method that dereferences a  *)
(* null pointer has undefined behaviour, whose outcome ub is either the    *)
(* process being killed (o.crashed, the objects are gone) or the call on   *)
(* the null object having no effect.                                       *)
(***************************************************************************)
Null == << >>
Ptr(x) == <<x>>

\* The option strings given to AliReconstruction::SetOption("MUON",options).
Options ==
  { << >>,
    W_SAVEDIGITS,
    ToLower(Sp(W_SAVEDIGITS, W_TRIGGERDISABLE)),
    Sp(W_SAVEDIGITS, W_NOLOCALRECONSTRUCTION),
    Sp(W_TRIGGERDISABLE, W_DIGITSTOREV1),
    W_NOFASTTRKDECODER,
    Sp(W_NOFASTTRGDECODER, Capitalized(W_DIGITSTOREV2S)),
    Sp(W_NOFASTDECODERS, W_DIGITSTOREV2R),
    Sp(W_NOFASTTRKDECODER, W_NOFASTTRGDECODER),
    ToLower(Sp(W_SAVEDIGITS, W_NOFASTDECODERS)),
    Sp(W_DIGITSTOREV2S, W_DIGITSTOREV1) }

LaterOptions == {W_SAVEDIGITS, Sp(W_TRIGGERDISABLE, W_DIGITSTOREV1)}

\* The clustering modes of the reconstruction parameters used here.
RecoModes == {ToLower(W_MLEM), W_NOCLUSTERING}

\* The outcomes of a call through a null pointer.
UBOutcomes == {"abort", "continue"}

\* The option words: TString::Contains is asked for these only.
OptionWords ==
  {W_SAVEDIGITS, W_DIGITSTOREV1, W_DIGITSTOREV2R, W_DIGITSTOREV2S,
   W_NOLOCALRECONSTRUCTION, W_TRIGGERDISABLE, W_NOFASTTRKDECODER,
   W_NOFASTTRGDECODER, W_NOFASTDECODERS}

\* The option words that Contains finds in the string s.
WordsIn(s) == {w \in OptionWords : Contains(s, w)}

\* What optWords holds for the option string o: the option words Contains
\* finds in o as it is given, and in o after ToUpper().
OptWords(o) == [given |-> WordsIn(o), upper |-> WordsIn(ToUpper(o))]

\* TString option = GetOption(); option.Contains(w)
OptionAsGiven == optWords.given

\* TString sopt(GetOption()); sopt.ToUpper(); sopt.Contains(w)
OptionToUpper == optWords.upper

Has(found, w) == w \in found

\* GetRecoParam()->GetClusteringMode(), ->CombineClusterTrackReco()
GetClusteringMode == mode
CombineClusterTrackReco == combine

\* The data members after the constructor (fTransformer, fTriggerCircuit,
\* fCalibrationData and fTrackStore are not read by what is modelled), the
\* number of digit stores created so far and whether DigitStore() was called.
NewReconstructor ==
  [fDigitMaker |-> Null, fDigitStore |-> Null, fDigitCalibrator |-> Null,
   fClusterServer |-> Null, fTriggerStore |-> Null, fClusterStore |-> Null,
   nDigitStores |-> 0, digitStoreCalled |-> FALSE, crashed |-> FALSE]

Ctx(o) == [o |-> o, log |-> {}]
Abort(c) == [c EXCEPT !.o = [NewReconstructor EXCEPT !.crashed = TRUE]]
Note(c, e) == [c EXCEPT !.log = @ \cup {e}]

\* CreateDigitMaker(): the decoder options are tested on the option string as
\* given, SAVEDIGITS on its upper-case form.
CreateDigitMaker(c) ==
  IF c.o.crashed \/ c.o.fDigitMaker # Null THEN c
  ELSE
    LET opt == OptionAsGiven
        t1 == IF Has(opt, W_NOFASTTRKDECODER) THEN FALSE ELSE TRUE
        g1 == IF Has(opt, W_NOFASTTRGDECODER) THEN FALSE ELSE TRUE
        useFastTrackerDecoder == IF Has(opt, W_NOFASTDECODERS) THEN FALSE ELSE t1
        useFastTriggerDecoder == IF Has(opt, W_NOFASTDECODERS) THEN FALSE ELSE g1
        upper == OptionToUpper
    IN [c EXCEPT !.o.fDigitMaker =
          Ptr([useFastTrackerDecoder |-> useFastTrackerDecoder,
               useFastTriggerDecoder |-> useFastTriggerDecoder,
               makeTriggerDigits |-> Has(upper, W_SAVEDIGITS)])]

\* CreateClusterServer(): no server when the mode names no cluster finder.
CreateClusterServer(c) ==
  IF c.o.crashed \/ c.o.fClusterServer # Null THEN c
  ELSE
    LET clusterFinder == CreateClusterFinder(GetClusteringMode) IN
    IF clusterFinder = NullFinder THEN c
    ELSE [c EXCEPT !.o.fClusterServer = Ptr(clusterFinder)]

\* AliMUONVDigitStore::Create(classname): the V2R class is compiled in and is
\* always created; another class is created or not (createOk).  id tells the
\* store objects apart, from tells what the class was taken from and createOk
\* whether the other classes could be created then.
DigitStoreCreate(impl, createOk, id) ==
  IF impl = "V2R" \/ createOk
  THEN Ptr([impl |-> impl, id |-> id, from |-> "option", createOk |-> createOk])
  ELSE Null

\* A slip: the option string is tested without ToUpper.
DigitStore_NoUpper(c, createOk) ==
  IF c.o.crashed THEN c
  ELSE IF c.o.fDigitStore # Null THEN [c EXCEPT !.o.digitStoreCalled = TRUE]
  ELSE
    LET sopt == OptionAsGiven
        id == c.o.nDigitStores + 1
        asked == IF Has(sopt, W_DIGITSTOREV1) THEN DigitStoreCreate("V1", createOk, id)
                 ELSE IF Has(sopt, W_DIGITSTOREV2R) THEN DigitStoreCreate("V2R", createOk, id)
                 ELSE IF Has(sopt, W_DIGITSTOREV2S) THEN DigitStoreCreate("V2S", createOk, id)
                 ELSE Null
        store == IF asked = Null THEN DigitStoreCreate("V2R", createOk, id) ELSE asked
    IN [c EXCEPT !.o.fDigitStore = store, !.o.nDigitStores = id,
                 !.o.digitStoreCalled = TRUE]

\* DigitStore(): returns c.o.fDigitStore of the result.
DigitStore(c, createOk) ==
  IF c.o.crashed THEN c
  ELSE IF c.o.fDigitStore # Null THEN [c EXCEPT !.o.digitStoreCalled = TRUE]
  ELSE
    LET sopt == OptionToUpper
        id == c.o.nDigitStores + 1
        asked == IF Has(sopt, W_DIGITSTOREV1) THEN DigitStoreCreate("V1", createOk, id)
                 ELSE IF Has(sopt, W_DIGITSTOREV2R) THEN DigitStoreCreate("V2R", createOk, id)
                 ELSE IF Has(sopt, W_DIGITSTOREV2S) THEN DigitStoreCreate("V2S", createOk, id)
                 ELSE Null
        store == IF asked = Null THEN DigitStoreCreate("V2R", createOk, id) ELSE asked
    IN [c EXCEPT !.o.fDigitStore = store, !.o.nDigitStores = id,
                 !.o.digitStoreCalled = TRUE]

\* TriggerStore(): returns c.o.fTriggerStore of the result.
TriggerStore(c) ==
  IF c.o.crashed THEN c
  ELSE
    LET sopt == OptionToUpper IN
    IF Has(sopt, W_TRIGGERDISABLE)
    THEN [c EXCEPT !.o.fTriggerStore = Null]
    ELSE IF c.o.fTriggerStore = Null
         THEN Note([c EXCEPT !.o.fTriggerStore = Ptr("AliMUONTriggerStoreV1")],
                   "TriggerStoreNew")
         ELSE c

\* CreateCalibrator(): no calibrator when the calibration data of the run are
\* not valid (calibOk).
CreateCalibrator(c, calibOk) ==
  IF c.o.crashed \/ ~calibOk THEN c
  ELSE [c EXCEPT !.o.fDigitCalibrator = Ptr("AliMUONDigitCalibrator")]

\* Calibrate(digitStore): fDigitCalibrator is dereferenced whether or not
\* CreateCalibrator made it.
Calibrate(c, calibOk, ub) ==
  IF c.o.crashed THEN c
  ELSE
    LET c1 == IF c.o.fDigitCalibrator = Null THEN CreateCalibrator(c, calibOk) ELSE c IN
    IF c1.o.fDigitCalibrator = Null /\ ub = "abort"
    THEN Abort(c1)
    ELSE c1

\* ConvertDigits(rawReader,digitStore,triggerStore), called with
\* digitStore = fDigitStore (not null) and triggerStore = fTriggerStore.
\* The digits themselves are not modelled.
ConvertDigits3(c, in) ==
  IF c.o.crashed THEN c
  ELSE
    LET c1 == CreateDigitMaker(c)
        c2 == IF c1.o.fTriggerStore # Null
              THEN Note(c1, "TriggerStoreUsed") ELSE c1
    IN Calibrate(c2, in.calibOk, in.ub)

\* The slip of leaving the cluster store as it is at the end of FillTreeR.
ClearClusterStore_Kept(cs) == cs

\* if (fClusterStore) fClusterStore->Clear();
ClearClusterStore(cs) == IF cs = Null THEN Null ELSE Ptr(0)

\* FillTreeR(triggerStore,clustersTree), called with triggerStore = fTriggerStore.
\* in.okTR: what triggerStore->Connect(clustersTree,alone) returns (what
\* fClusterStore->Connect returns is only reported); in.useChambers: some
\* chamber passes the UseChamber and bypass tests; in.found: the clusters the
\* Clusterize calls add to the cluster store.
FillTreeR(c, in) ==
  IF c.o.crashed THEN c
  ELSE
    LET alone == IF ~CombineClusterTrackReco THEN FALSE ELSE TRUE
        ok == IF c.o.fTriggerStore # Null THEN in.okTR ELSE FALSE
        c1 == IF c.o.fTriggerStore # Null
              THEN Note(c, "TriggerStoreUsed") ELSE c
        \* if ( !alone ) { ... }
        c2 == IF c1.o.fClusterStore = Null
              THEN [c1 EXCEPT !.o.fClusterStore = Ptr(0)] ELSE c1
        c3 == CreateClusterServer(c2)
        c4 == DigitStore(c3, in.createOk)
        \* fClusterServer->UseDigits(next) and the Clusterize loop
        c5 == IF c4.o.fClusterServer = Null
              THEN IF in.ub = "abort"
                   THEN Note(Abort(c4), "NullClusterServerUsed")
                   ELSE Note(c4, "NullClusterServerUsed")
              ELSE IF in.useChambers
                   THEN [c4 EXCEPT !.o.fClusterStore = Ptr(c4.o.fClusterStore[1] + in.found),
                                   !.log = @ \cup {"Clusterize"}
                                             \cup (IF in.found > 0 THEN {"ClustersFound"}
                                                   ELSE {})]
                   ELSE c4
        c6 == IF alone THEN c1 ELSE c5
    IN IF c6.o.crashed THEN c6
       ELSE
         \* if (ok) clustersTree.Fill();
         [c6 EXCEPT !.o.fClusterStore = ClearClusterStore(c6.o.fClusterStore)]

\* ConvertDigits(rawReader,digitsTree).  in.okD, in.okTD: what the Connect calls
\* on the digits tree return.
ConvertDigitsTree(c, in) ==
  LET c1 == TriggerStore(c)
      alone == (c1.o.fTriggerStore = Null)
      c2 == DigitStore(c1, in.createOk)
      c3 == TriggerStore(c2)
      ok == IF c3.o.fTriggerStore # Null THEN in.okD /\ in.okTD ELSE in.okD
      c4 == IF c3.o.fTriggerStore # Null /\ in.okD
            THEN Note(TriggerStore(c3), "TriggerStoreUsed") ELSE c3
  IN IF ~ok THEN c4
     ELSE DigitStore(ConvertDigits3(TriggerStore(DigitStore(c4, in.createOk)), in),
                     in.createOk)

\* Reconstruct(rawReader,clustersTree)
ReconstructRaw(c, in) ==
  IF in.nullTree THEN c
  ELSE
    LET c1 == ConvertDigits3(TriggerStore(DigitStore(c, in.createOk)), in)
    IN FillTreeR(TriggerStore(c1), in)

\* Reconstruct(digitsTree,clustersTree).  in.tree is the digits tree: the
\* digit store class of its branch (or none), whether it has trigger branches,
\* and whether its first digit is there and not calibrated.
ReconstructTree(c, in) ==
  IF in.nullTree THEN c
  ELSE
    LET id == c.o.nDigitStores + 1
        c1 == IF c.o.fDigitStore = Null /\ in.tree.digitImpl # Null
              THEN [c EXCEPT !.o.fDigitStore =
                               Ptr([impl |-> in.tree.digitImpl[1], id |-> id,
                                    from |-> "tree", createOk |-> TRUE]),
                             !.o.nDigitStores = id]
              ELSE c
        c2 == IF c1.o.fTriggerStore = Null /\ in.tree.hasTrigger
              THEN Note([c1 EXCEPT !.o.fTriggerStore = Ptr("AliMUONTriggerStoreV1")],
                        "TriggerStoreNew")
              ELSE c1
    IN IF c2.o.fTriggerStore = Null /\ c2.o.fDigitStore = Null THEN c2
       ELSE IF c2.o.fDigitStore # Null /\ ~in.okD THEN c2
       ELSE
         LET c4 == IF c2.o.fTriggerStore # Null
                   THEN Note(c2, "TriggerStoreUsed") ELSE c2
         IN IF c4.o.fTriggerStore # Null /\ ~in.okTD THEN c4
            ELSE
              \* digitsTree->GetEvent(0)
              LET c6 == IF c4.o.fDigitStore # Null /\ in.tree.digitImpl # Null
                           /\ in.tree.uncalibrated
                        THEN Calibrate(c4, in.calibOk, in.ub) ELSE c4
              IN FillTreeR(c6, in)

\* CreateTracker(): the digit maker, the cluster server and the digit store
\* the tracker is given.
CreateTracker(c, in) ==
  DigitStore(CreateClusterServer(CreateDigitMaker(c)), in.createOk)

\* A slip: the option string is tested without ToUpper.
HasDigitConversion_NoUpper ==
  LET opt == OptionAsGiven IN
  IF Has(opt, W_SAVEDIGITS) /\ ~Has(opt, W_NOLOCALRECONSTRUCTION)
  THEN TRUE ELSE FALSE

\* HasDigitConversion()
HasDigitConversion ==
  LET opt == OptionToUpper IN
  IF Has(opt, W_SAVEDIGITS) /\ ~Has(opt, W_NOLOCALRECONSTRUCTION)
  THEN TRUE ELSE FALSE

(***************************************************************************)
(* The calls on the reconstructor.  What a call meets outside the object   *)
(* is its input: whether a digit store class other than V2R can be created *)
(* (createOk), whether the calibration data are valid (calibOk), what a    *)
(* call through a null pointer does (ub), the digits tree, what the        *)
(* Connect calls return and what the Clusterize calls find.  An input the  *)
(* call cannot read (createOk when the digit store exists, calibOk when    *)
(* the calibrator exists or nothing is calibrated, ub when no null pointer *)
(* can be met, the clusters when FillTreeR cannot clusterize) is given     *)
(* one value only.                                                         *)
(***************************************************************************)
CreateOks == IF rec.fDigitStore = Null THEN BOOLEAN ELSE {TRUE}
CalibOks(calibrates) ==
  IF calibrates /\ rec.fDigitCalibrator = Null THEN BOOLEAN ELSE {TRUE}
NoServer ==
  rec.fClusterServer = Null /\ CreateClusterFinder(GetClusteringMode) = NullFinder
UBs(calibOk, clusters) ==
  IF \/ rec.fDigitCalibrator = Null /\ ~calibOk
     \/ clusters /\ ~CombineClusterTrackReco /\ NoServer
  THEN UBOutcomes ELSE {"abort"}

\* The digits trees given to Reconstruct(digitsTree,clustersTree).
DigitsTrees ==
  {t \in [digitImpl : {Null, Ptr("V1")}, hasTrigger : BOOLEAN, uncalibrated : BOOLEAN] :
     t.uncalibrated => t.digitImpl # Null}

NoTree == [digitImpl |-> Null, hasTrigger |-> FALSE, uncalibrated |-> FALSE]

\* What the Connect calls of one call return: a Connect that fails ends the
\* call or is the last one, so the ones after it are not listed.
Connects ==
  {[okD |-> FALSE, okTD |-> TRUE, okTR |-> TRUE],
   [okD |-> TRUE, okTD |-> FALSE, okTR |-> TRUE],
   [okD |-> TRUE, okTD |-> TRUE, okTR |-> FALSE],
   [okD |-> TRUE, okTD |-> TRUE, okTR |-> TRUE]}

\* What the Clusterize loop does: no chamber is used (Null), or the chambers
\* used yield so many clusters.
Clusterizes ==
  IF CombineClusterTrackReco \/ NoServer THEN {Null}
  ELSE {Null} \cup {Ptr(k) : k \in 0..MaxClusters}

Input(createOk, calibOk, ub, nullTree, tree, conn, clu) ==
  [createOk |-> createOk, calibOk |-> calibOk, ub |-> ub,
   nullTree |-> nullTree, tree |-> tree,
   okD |-> conn.okD, okTD |-> conn.okTD, okTR |-> conn.okTR,
   useChambers |-> (clu # Null), found |-> IF clu = Null THEN 0 ELSE clu[1]]

Returns(c, r) ==
  /\ rec' = c.o
  /\ log' = c.log
  /\ ret' = r
  /\ UNCHANGED <<option, optWords, mode, combine, finderVars, nanoVars, genVars>>

MuonInit ==
  /\ option = << >>
  /\ optWords = OptWords(<< >>)
  /\ mode \in RecoModes
  /\ combine \in BOOLEAN
  /\ rec = NewReconstructor
  /\ log = {}
  /\ ret = Null

\* While another part of the program is looked at.
MuonIdle ==
  /\ option = << >>
  /\ optWords = OptWords(<< >>)
  /\ mode = W_NOCLUSTERING
  /\ combine = FALSE
  /\ rec = NewReconstructor
  /\ log = {}
  /\ ret = Null

\* AliReconstruction::SetOption("MUON",options)
\* AliReconstruction sets the options of the detector before it uses the
\* reconstructor; the options set once it is in use are drawn from
\* LaterOptions.
SetOption ==
  /\ ~rec.crashed
  /\ \E o \in (IF rec = NewReconstructor THEN Options ELSE LaterOptions) :
       option' = o /\ optWords' = OptWords(o)
  /\ log' = {}
  /\ ret' = Null
  /\ UNCHANGED <<mode, combine, rec, finderVars, nanoVars, genVars>>

CallDigitStore ==
  /\ ~rec.crashed
  /\ \E createOk \in CreateOks : Returns(DigitStore(Ctx(rec), createOk), Null)

CallTriggerStore ==
  /\ ~rec.crashed
  /\ Returns(Note(TriggerStore(Ctx(rec)), "TriggerStoreCall"), Null)

CallHasDigitConversion ==
  /\ ~rec.crashed
  /\ Returns(Note(Ctx(rec), "HasDigitConversionCall"), Ptr(HasDigitConversion))

CallCreateTracker ==
  /\ ~rec.crashed
  /\ \E createOk \in CreateOks :
       Returns(CreateTracker(Ctx(rec), [createOk |-> createOk]), Null)

CallConvertDigitsTree ==
  /\ ~rec.crashed
  /\ \E createOk \in CreateOks, calibOk \in CalibOks(TRUE),
        conn \in {k \in Connects : k.okTR} :
     \E ub \in UBs(calibOk, FALSE) :
       Returns(ConvertDigitsTree(Ctx(rec),
                 Input(createOk, calibOk, ub, FALSE, NoTree, conn, Null)), Null)

CallReconstructRaw ==
  /\ ~rec.crashed
  /\ \/ Returns(ReconstructRaw(Ctx(rec),
                  Input(TRUE, TRUE, "abort", TRUE, NoTree,
                        [okD |-> TRUE, okTD |-> TRUE, okTR |-> TRUE], Null)), Null)
     \/ \E createOk \in CreateOks, calibOk \in CalibOks(TRUE),
           conn \in {k \in Connects : k.okD /\ k.okTD}, clu \in Clusterizes :
        \E ub \in UBs(calibOk, TRUE) :
          Returns(ReconstructRaw(Ctx(rec),
                    Input(createOk, calibOk, ub, FALSE, NoTree, conn, clu)), Null)

CallReconstructTree ==
  /\ ~rec.crashed
  /\ \/ Returns(ReconstructTree(Ctx(rec),
                  Input(TRUE, TRUE, "abort", TRUE, NoTree,
                        [okD |-> TRUE, okTD |-> TRUE, okTR |-> TRUE], Null)), Null)
     \/ \E createOk \in CreateOks, tree \in DigitsTrees, conn \in Connects,
           clu \in Clusterizes :
        \E calibOk \in CalibOks(tree.uncalibrated) : \E ub \in UBs(calibOk, TRUE) :
          Returns(ReconstructTree(Ctx(rec),
                    Input(createOk, calibOk, ub, FALSE, tree, conn, clu)), Null)

MuonNext ==
  \/ SetOption
  \/ CallDigitStore
  \/ CallTriggerStore
  \/ CallHasDigitConversion
  \/ CallCreateTracker
  \/ CallConvertDigitsTree
  \/ CallReconstructRaw
  \/ CallReconstructTree

(***************************************************************************)
(* AliNanoAODStorage.                                                      *)
(* A storage is its data members: fNVars, fNVarsString and the two         *)
(* std::vector members (index i of the code is index i + 1 here).  The     *)
(* methods are operators on k = [sto |-> the object, error |-> whether     *)
(* AliError or AliFatal was called].                                       *)
(***************************************************************************)
Names == {"a", "b"}
Doubles == {0, 1}
EmptyString == << >>
TStrings == {EmptyString, <<"x">>}
Sizes == 0..MaxVars

\* The default constructor (declared in AliNanoAODStorage.h).
NewStorage ==
  [fNVars |-> 0, fNVarsString |-> 0, fVars |-> << >>, fVarsString |-> << >>]

Sto(s) == [sto |-> s, error |-> FALSE]

\* std::vector::clear() followed by resize(n, v)
ClearResize(n, v) == [i \in 1..n |-> v]

\* std::vector::resize(n, v) alone: the elements already there are kept.
Resize(old, n, v) == [i \in 1..n |-> IF i <= Len(old) THEN old[i] ELSE v]

\* The allocation with the two clear() calls left out.
AllocateInternalStorage_NoClear(k, size, sizeString) ==
  IF size = 0 THEN [k EXCEPT !.error = TRUE]
  ELSE
    LET k1 == [k EXCEPT !.sto.fNVars = size,
                        !.sto.fVars = Resize(k.sto.fVars, size, 0)]
    IN IF sizeString > 0
       THEN [k1 EXCEPT !.sto.fNVarsString = sizeString,
                       !.sto.fVarsString = Resize(k.sto.fVarsString, sizeString, EmptyString)]
       ELSE k1

\* AllocateInternalStorage(Int_t size, Int_t sizeString)
AllocateInternalStorage(k, size, sizeString) ==
  IF size = 0 THEN [k EXCEPT !.error = TRUE]
  ELSE
    LET k1 == [k EXCEPT !.sto.fNVars = size,
                        !.sto.fVars = ClearResize(size, 0)]
    IN IF sizeString > 0
       THEN [k1 EXCEPT !.sto.fNVarsString = sizeString,
                       !.sto.fVarsString = ClearResize(sizeString, EmptyString)]
       ELSE k1

\* AllocateInternalStorage(Int_t size)
AllocateInternalStorage1(k, size) == AllocateInternalStorage(k, size, 0)

\* SetVar, GetVar, SetVarString, GetVarString (AliNanoAODStorage.h): the
\* index is checked against the count, an index out of range is reported by
\* Complain and nothing is stored.
SetVar(k, var, val) ==
  IF var >= 0 /\ var < k.sto.fNVars
  THEN [k EXCEPT !.sto.fVars[var + 1] = val]
  ELSE [k EXCEPT !.error = TRUE]

GetVar(s, var) == IF var >= 0 /\ var < s.fNVars THEN s.fVars[var + 1] ELSE 0

SetVarString(k, var, val) ==
  IF var >= 0 /\ var < k.sto.fNVarsString
  THEN [k EXCEPT !.sto.fVarsString[var + 1] = val]
  ELSE [k EXCEPT !.error = TRUE]

GetVarString(s, var) ==
  IF var >= 0 /\ var < s.fNVarsString THEN s.fVarsString[var + 1] ELSE EmptyString

\* for (isize = from; isize < sto.fNVars; isize++) SetVar(isize, sto.GetVar(isize));
RECURSIVE CopyVars(_, _, _)
CopyVars(k, sto, isize) ==
  IF isize < sto.fNVars
  THEN CopyVars(SetVar(k, isize, GetVar(sto, isize)), sto, isize + 1)
  ELSE k

\* for (isize = from; isize < sto.fNVarsString; isize++) SetVarString(...);
RECURSIVE CopyVarStrings(_, _, _)
CopyVarStrings(k, sto, isize) ==
  IF isize < sto.fNVarsString
  THEN CopyVarStrings(SetVarString(k, isize, GetVarString(sto, isize)), sto, isize + 1)
  ELSE k

\* operator=(const AliNanoAODStorage& sto) of the object named this, in the
\* objects os: sto and this may be the same object, and then the allocation
\* has cleared sto as well before the test this != &sto.
OperatorAssign(os, this, sto) ==
  LET k1 == AllocateInternalStorage(Sto(os[this]), os[sto].fNVars, os[sto].fNVarsString)
      os1 == [os EXCEPT ![this] = k1.sto]
      k2 == IF this # sto
            THEN CopyVarStrings(CopyVars(k1, os1[sto], 0), os1[sto], 0)
            ELSE k1
  IN [objs |-> [os EXCEPT ![this] = k2.sto], error |-> k2.error]

\* Whether a storage holds a value other than the ones an allocation leaves.
HoldsValues(s) ==
  \/ \E i \in 1..Len(s.fVars) : s.fVars[i] # 0
  \/ \E i \in 1..Len(s.fVarsString) : s.fVarsString[i] # EmptyString

\* The last call: the method, the object it was called on, its arguments,
\* whether it reported an error and whether the object held values before.
Op(op, this, sto, size, sizeString, error, dirty) ==
  [op |-> op, this |-> this, sto |-> sto, size |-> size,
   sizeString |-> sizeString, error |-> error, dirty |-> dirty]

NanoInit ==
  /\ objs = [x \in Names |-> NewStorage]
  /\ lastOp = Op("new", "a", "a", 0, 0, FALSE, FALSE)

\* While another part of the program is looked at.
NanoIdle == NanoInit

CallAllocateInternalStorage1 ==
  \E x \in Names, size \in Sizes :
    LET k == AllocateInternalStorage1(Sto(objs[x]), size) IN
    /\ objs' = [objs EXCEPT ![x] = k.sto]
    /\ lastOp' = Op("AllocateInternalStorage1", x, x, size, 0, k.error,
                    HoldsValues(objs[x]))
    /\ UNCHANGED <<finderVars, muonVars, genVars>>

CallAllocateInternalStorage ==
  \E x \in Names, size \in Sizes, sizeString \in Sizes :
    LET k == AllocateInternalStorage(Sto(objs[x]), size, sizeString) IN
    /\ objs' = [objs EXCEPT ![x] = k.sto]
    /\ lastOp' = Op("AllocateInternalStorage", x, x, size, sizeString, k.error,
                    HoldsValues(objs[x]))
    /\ UNCHANGED <<finderVars, muonVars, genVars>>

CallSetVar ==
  \E x \in Names, var \in 0..(MaxVars - 1), val \in Doubles :
    LET k == SetVar(Sto(objs[x]), var, val) IN
    /\ objs' = [objs EXCEPT ![x] = k.sto]
    /\ lastOp' = Op("SetVar", x, x, 0, 0, k.error, HoldsValues(objs[x]))
    /\ UNCHANGED <<finderVars, muonVars, genVars>>

CallSetVarString ==
  \E x \in Names, var \in 0..(MaxVars - 1), val \in TStrings :
    LET k == SetVarString(Sto(objs[x]), var, val) IN
    /\ objs' = [objs EXCEPT ![x] = k.sto]
    /\ lastOp' = Op("SetVarString", x, x, 0, 0, k.error, HoldsValues(objs[x]))
    /\ UNCHANGED <<finderVars, muonVars, genVars>>

CallOperatorAssign ==
  \E this \in Names, sto \in Names :
    LET r == OperatorAssign(objs, this, sto) IN
    /\ objs' = r.objs
    /\ lastOp' = Op("OperatorAssign", this, sto, 0, 0, r.error,
                    HoldsValues(objs[this]))
    /\ UNCHANGED <<finderVars, muonVars, genVars>>

NanoNext ==
  \/ CallAllocateInternalStorage1
  \/ CallAllocateInternalStorage
  \/ CallSetVar
  \/ CallSetVarString
  \/ CallOperatorAssign

(***************************************************************************)
(* AliGenParam::Generate.                                                  *)
(* The polar angle theta and the total momentum ptot of a candidate are    *)
(* numbers of 0..MaxKin, as are the limits of the windows; what the random *)
(* generators and the decay yield is an input of each pass of the loop.    *)
(* genPar holds the data members read, gen the position in Generate (pc),  *)
(* the local ipa, the tracks given to SetTrack with "Primary" (each with   *)
(* the number of its "Decay" tracks) and what was sampled last.            *)
(***************************************************************************)
Kinematics == 0..MaxKin

\* The decay products that ChildSelected selects, in the order of the
\* particle loop: TRUE for one inside the child cuts.
RECURSIVE ChildLists(_)
ChildLists(n) ==
  IF n = 0 THEN {<< >>}
  ELSE ChildLists(n - 1) \cup
       {Append(l, b) : l \in {k \in ChildLists(n - 1) : Len(k) = n - 1}, b \in BOOLEAN}

Candidates == [theta : Kinematics, ptot : Kinematics, kids : ChildLists(MaxChildren)]

GenParams ==
  {par \in [fNpart : 0..MaxNpart, fThetaMin : Kinematics, fThetaMax : Kinematics,
            fPMin : Kinematics, fPMax : Kinematics, fCutOnChild : BOOLEAN] :
     par.fThetaMin <= par.fThetaMax /\ par.fPMin <= par.fPMax}

\* The parent cuts with the test of the momentum left out.
ParentRejected_NoMomentum(par, cand) ==
  cand.theta < par.fThetaMin \/ cand.theta > par.fThetaMax

\* if(theta<fThetaMin || theta>fThetaMax) continue;
\* if(ptot<fPMin || ptot>fPMax) continue;
ParentRejected(par, cand) ==
  \/ cand.theta < par.fThetaMin \/ cand.theta > par.fThetaMax
  \/ cand.ptot < par.fPMin \/ cand.ptot > par.fPMax

\* The particle loop: ncsel after the selected children from the i-th on.
RECURSIVE SelectChildren(_, _, _, _)
SelectChildren(par, kids, i, ncsel) ==
  IF i > Len(kids) THEN ncsel
  ELSE IF par.fCutOnChild
       THEN IF kids[i] THEN SelectChildren(par, kids, i + 1, ncsel + 1)
            ELSE 0 - 1
       ELSE SelectChildren(par, kids, i + 1, ncsel + 1)

\* if ((fCutOnChild && ncsel >0) || !fCutOnChild)
KinematicSelection(par, ncsel) == (par.fCutOnChild /\ ncsel > 0) \/ ~par.fCutOnChild

\* theta and ptot of a candidate.
Sampled(cand) == <<[theta |-> cand.theta, ptot |-> cand.ptot]>>

GenState(pc, ipa, tracks, last) == [pc |-> pc, ipa |-> ipa, tracks |-> tracks, last |-> last]

GenInit ==
  /\ genPar \in GenParams
  /\ gen = GenState("idle", 0, << >>, << >>)

\* While another part of the program is looked at.
GenIdle ==
  /\ genPar = [fNpart |-> 0, fThetaMin |-> 0, fThetaMax |-> 0, fPMin |-> 0,
               fPMax |-> 0, fCutOnChild |-> FALSE]
  /\ gen = GenState("idle", 0, << >>, << >>)

\* Generate() is entered: Int_t ipa=0;
GenerateEnter ==
  /\ gen.pc = "idle"
  /\ gen' = GenState("loop", 0, << >>, << >>)
  /\ UNCHANGED <<genPar, finderVars, muonVars, nanoVars>>

\* A pass of while(1) that ends at one of the two continue statements.
GenerateParentCut ==
  /\ gen.pc = "loop"
  /\ gen.ipa < genPar.fNpart
  /\ \E cand \in Candidates :
       /\ ParentRejected(genPar, cand)
       /\ gen' = [gen EXCEPT !.last = Sampled(cand)]
  /\ UNCHANGED <<genPar, finderVars, muonVars, nanoVars>>

\* A pass that reaches break without the kinematic selection.
GenerateChildCut ==
  /\ gen.pc = "loop"
  /\ gen.ipa < genPar.fNpart
  /\ \E cand \in Candidates :
       /\ ~ParentRejected(genPar, cand)
       /\ ~KinematicSelection(genPar, SelectChildren(genPar, cand.kids, 1, 0))
       /\ gen' = [gen EXCEPT !.last = Sampled(cand)]
  /\ UNCHANGED <<genPar, finderVars, muonVars, nanoVars>>

\* A pass that registers the parent and its ncsel children.
GenerateSetTrack ==
  /\ gen.pc = "loop"
  /\ gen.ipa < genPar.fNpart
  /\ \E cand \in Candidates :
       LET ncsel == SelectChildren(genPar, cand.kids, 1, 0) IN
       /\ ~ParentRejected(genPar, cand)
       /\ KinematicSelection(genPar, ncsel)
       /\ gen' = [gen EXCEPT !.ipa = @ + 1,
                             !.tracks = Append(@, [theta |-> cand.theta,
                                                   ptot |-> cand.ptot,
                                                   decays |-> IF ncsel > 0 THEN ncsel ELSE 0]),
                             !.last = Sampled(cand)]
  /\ UNCHANGED <<genPar, finderVars, muonVars, nanoVars>>

\* while (ipa<fNpart) is left and Generate() returns.
GenerateReturn ==
  /\ gen.pc = "loop"
  /\ ~(gen.ipa < genPar.fNpart)
  /\ gen' = [gen EXCEPT !.pc = "done"]
  /\ UNCHANGED <<genPar, finderVars, muonVars, nanoVars>>

GenNext ==
  \/ GenerateEnter
  \/ GenerateParentCut
  \/ GenerateChildCut
  \/ GenerateSetTrack
  \/ GenerateReturn

(***************************************************************************)
(* The specifications: each one runs one of the parts, the others idle.    *)
(***************************************************************************)
InitFinder == FinderInit /\ MuonIdle /\ NanoIdle /\ GenIdle
InitMuon == MuonInit /\ FinderIdle /\ NanoIdle /\ GenIdle
InitNano == NanoInit /\ FinderIdle /\ MuonIdle /\ GenIdle
InitGen == GenInit /\ FinderIdle /\ MuonIdle /\ NanoIdle

SpecFinder ==
  /\ InitFinder
  /\ [][FinderNext]_vars

SpecMuon ==
  /\ InitMuon
  /\ [][MuonNext]_vars

SpecNano ==
  /\ InitNano
  /\ [][NanoNext]_vars

\* The sampling eventually yields an acceptable candidate: a pass that
\* registers a parent is not postponed for ever.
SpecGen ==
  /\ InitGen
  /\ [][GenNext]_vars
  /\ WF_vars(GenerateEnter)
  /\ WF_vars(GenerateSetTrack)
  /\ WF_vars(GenerateReturn)

(***************************************************************************)
(* The properties.                                                         *)
(***************************************************************************)

\* C1: for every clustering mode of the class documentation, written in any
\* letter case, CreateClusterFinder returns the combination documented for
\* that mode; a longer mode name is not dispatched as a shorter one in it.
C1_DocumentedDispatch ==
  LET mode_ == ToLower(cfType)
      documented ==
        [w \in DocumentedModes |->
           IF w = W_SIMPLEFIT
             THEN <<Obj("AliMUONClusterFinderSimpleFit", FALSE),
                    Obj("AliMUONClusterFinderCOG", FALSE),
                    Obj("AliMUONPreClusterFinder", FALSE)>>
           ELSE IF w = W_SIMPLEFITV3
             THEN <<Obj("AliMUONClusterFinderSimpleFit", FALSE),
                    Obj("AliMUONClusterFinderCOG", FALSE),
                    Obj("AliMUONPreClusterFinderV3", FALSE)>>
           ELSE IF w = W_MLEM
             THEN <<Obj("AliMUONClusterFinderMLEM", FALSE),
                    Obj("AliMUONPreClusterFinder", FALSE)>>
           ELSE IF w = W_MLEMV2
             THEN <<Obj("AliMUONClusterFinderMLEM", FALSE),
                    Obj("AliMUONPreClusterFinderV2", FALSE)>>
           ELSE IF w = W_MLEMV3
             THEN <<Obj("AliMUONClusterFinderMLEM", FALSE),
                    Obj("AliMUONPreClusterFinderV3", FALSE)>>
           ELSE IF w = W_PRECLUSTER THEN <<Obj("AliMUONPreClusterFinder", FALSE)>>
           ELSE IF w = W_PRECLUSTERV2 THEN <<Obj("AliMUONPreClusterFinderV2", FALSE)>>
           ELSE IF w = W_PRECLUSTERV3 THEN <<Obj("AliMUONPreClusterFinderV3", FALSE)>>
           ELSE IF w = W_COG
             THEN <<Obj("AliMUONClusterFinderCOG", FALSE),
                    Obj("AliMUONPreClusterFinder", FALSE)>>
           ELSE IF w = W_PEAKCOG
             THEN <<Obj("AliMUONClusterFinderPeakCOG", FALSE),
                    Obj("AliMUONPreClusterFinder", FALSE)>>
           ELSE <<Obj("AliMUONClusterFinderPeakFit", FALSE),
                  Obj("AliMUONPreClusterFinder", FALSE)>>]
  IN cfDone =>
       \A w \in DocumentedModes : mode_ = ToLower(w) => cfResult = documented[w]

\* C1, its case: PEAKCOG, given in lower case, was dispatched to the
\* PeakCOG finder.
C1_Witness ==
  /\ cfDone
  /\ cfType = ToLower(W_PEAKCOG)
  /\ cfResult[1].cls = "AliMUONClusterFinderPeakCOG"

\* C2: with the clustering mode NOCLUSTERING, for either value of
\* CombineClusterTrackReco, the calls run to completion without a cluster
\* finder being created, without a Clusterize call and without a call
\* through the cluster server pointer that was never set.
C2_NoClusteringBypassed ==
  mode = W_NOCLUSTERING =>
    /\ ~rec.crashed
    /\ rec.fClusterServer = Null
    /\ "Clusterize" \notin log
    /\ "NullClusterServerUsed" \notin log

\* C3: while the option string contains TRIGGERDISABLE in any letter case, no
\* call creates a trigger store, connects one to a tree or hands one to the
\* digit maker, and TriggerStore() leaves no trigger store behind.
C3_TriggerDisabled ==
  Contains(ToLower(option), ToLower(W_TRIGGERDISABLE)) =>
    /\ "TriggerStoreNew" \notin log
    /\ "TriggerStoreUsed" \notin log
    /\ "TriggerStoreCall" \in log => rec.fTriggerStore = Null

\* C4: the digit maker is created with the fast tracker decoder off exactly
\* when the option string contains NOFASTTRKDECODER or NOFASTDECODERS, the
\* fast trigger decoder off exactly when it contains NOFASTTRGDECODER or
\* NOFASTDECODERS, and trigger digits made exactly when it contains
\* SAVEDIGITS ("contains" read with or without regard to the letter case,
\* the same way for the three); once created it is never changed.
C4_DigitMakerFollowsOptions ==
  [][ /\ (rec.fDigitMaker = Null /\ rec'.fDigitMaker # Null) =>
           LET dm == rec'.fDigitMaker[1]
               Follows(opt, Form(_)) ==
                 /\ dm.useFastTrackerDecoder =
                      ~(Contains(opt, Form(W_NOFASTTRKDECODER))
                        \/ Contains(opt, Form(W_NOFASTDECODERS)))
                 /\ dm.useFastTriggerDecoder =
                      ~(Contains(opt, Form(W_NOFASTTRGDECODER))
                        \/ Contains(opt, Form(W_NOFASTDECODERS)))
                 /\ dm.makeTriggerDigits = Contains(opt, Form(W_SAVEDIGITS))
               Same(w) == w
           IN Follows(option, Same) \/ Follows(ToLower(option), ToLower)
      /\ (rec.fDigitMaker # Null /\ ~rec'.crashed) => rec'.fDigitMaker = rec.fDigitMaker
    ]_vars

\* C5 as stated: DigitStore() never returns null, returns the same object on
\* every later call, and the class of the store is chosen at the first call
\* of DigitStore() from the option string, whatever the letter case: V1,
\* else V2R, else V2S, and V2R when none is asked or the one asked cannot be
\* created.
C5_ChosenAtFirstCall ==
  [][ LET lo == ToLower(option)
          asked == IF Contains(lo, ToLower(W_DIGITSTOREV1)) THEN "V1"
                   ELSE IF Contains(lo, ToLower(W_DIGITSTOREV2R)) THEN "V2R"
                   ELSE IF Contains(lo, ToLower(W_DIGITSTOREV2S)) THEN "V2S"
                   ELSE "V2R"
      IN /\ rec'.digitStoreCalled => rec'.fDigitStore # Null
         /\ (rec.fDigitStore # Null /\ ~rec'.crashed) => rec'.fDigitStore = rec.fDigitStore
         /\ (~rec.digitStoreCalled /\ rec'.digitStoreCalled) =>
              rec'.fDigitStore[1].impl =
                IF rec'.fDigitStore[1].createOk THEN asked ELSE "V2R"
    ]_vars

\* C5 amended: DigitStore() never returns null and returns the same object
\* on every later call; when no digit store exists at the call, the class is
\* chosen from the option string as stated; a store that
\* Reconstruct(digitsTree,clustersTree) made from the digits tree is
\* returned as it is.
C5_ChosenWhenCreated ==
  [][ LET lo == ToLower(option)
          asked == IF Contains(lo, ToLower(W_DIGITSTOREV1)) THEN "V1"
                   ELSE IF Contains(lo, ToLower(W_DIGITSTOREV2R)) THEN "V2R"
                   ELSE IF Contains(lo, ToLower(W_DIGITSTOREV2S)) THEN "V2S"
                   ELSE "V2R"
      IN /\ rec'.digitStoreCalled => rec'.fDigitStore # Null
         /\ (rec.fDigitStore # Null /\ ~rec'.crashed) => rec'.fDigitStore = rec.fDigitStore
         /\ (rec.fDigitStore = Null /\ rec'.fDigitStore # Null) =>
              \/ rec'.fDigitStore[1].from = "tree"
              \/ /\ rec'.digitStoreCalled
                 /\ rec'.fDigitStore[1].impl =
                      IF rec'.fDigitStore[1].createOk THEN asked ELSE "V2R"
    ]_vars

\* C5, its case: the option names DIGITSTOREV2S with a capital first letter
\* only, and DigitStore() made a V2S store.
C5_Witness ==
  /\ option = Sp(W_NOFASTTRGDECODER, Capitalized(W_DIGITSTOREV2S))
  /\ rec.digitStoreCalled
  /\ rec.fDigitStore # Null
  /\ rec.fDigitStore[1].impl = "V2S"
  /\ rec.fDigitStore[1].from = "option"

\* C6: HasDigitConversion() returns true exactly when the option string,
\* whatever the letter case, contains SAVEDIGITS and does not contain
\* NOLOCALRECONSTRUCTION, and it changes nothing.
C6_HasDigitConversion ==
  [][ "HasDigitConversionCall" \in log' =>
        LET lo == ToLower(option) IN
        /\ ret' = Ptr(Contains(lo, ToLower(W_SAVEDIGITS))
                      /\ ~Contains(lo, ToLower(W_NOLOCALRECONSTRUCTION)))
        /\ rec' = rec
        /\ option' = option /\ mode' = mode /\ combine' = combine
    ]_vars

\* C6, its case: SAVEDIGITS in lower case, and the call returned true.
C6_Witness ==
  /\ "HasDigitConversionCall" \in log
  /\ option = ToLower(Sp(W_SAVEDIGITS, W_TRIGGERDISABLE))
  /\ ret = Ptr(TRUE)

\* C10: between the calls the cluster store is not created or is empty.
C10_ClusterStoreEmpty ==
  rec.fClusterStore \in {Null, Ptr(0)}

\* C10, its case: the last call found clusters, and the store is empty.
C10_Witness ==
  /\ "ClustersFound" \in log
  /\ rec.fClusterStore = Ptr(0)

\* C7: after a = b, for any two storages, the same one included, a has the
\* counts and the values b had before, and b is as before.
C7_AssignmentCopies ==
  [][ lastOp'.op = "OperatorAssign" =>
        /\ objs'[lastOp'.this] = objs[lastOp'.sto]
        /\ objs'[lastOp'.sto] = objs[lastOp'.sto]
    ]_vars

\* C8: AllocateInternalStorage(size, sizeString) with size = 0 reports an
\* error and changes nothing; with size > 0 the storage holds size numeric
\* variables, all 0, and, when sizeString > 0, sizeString strings, all
\* empty; the one-argument overload acts as sizeString = 0; the counts
\* always equal the lengths of the containers.
C8_Allocation ==
  [][ /\ lastOp'.op \in {"AllocateInternalStorage", "AllocateInternalStorage1"} =>
           LET size == lastOp'.size
               sizeString == IF lastOp'.op = "AllocateInternalStorage1" THEN 0
                             ELSE lastOp'.sizeString
               before == objs[lastOp'.this]
               after == objs'[lastOp'.this]
           IN /\ size = 0 => lastOp'.error /\ after = before
              /\ size > 0 =>
                   /\ ~lastOp'.error
                   /\ after.fNVars = size
                   /\ after.fVars = [i \in 1..size |-> 0]
                   /\ sizeString > 0 =>
                        /\ after.fNVarsString = sizeString
                        /\ after.fVarsString = [i \in 1..sizeString |-> << >>]
                   /\ sizeString = 0 =>
                        /\ after.fNVarsString = before.fNVarsString
                        /\ after.fVarsString = before.fVarsString
      /\ \A x \in Names :
           /\ Len(objs'[x].fVars) = objs'[x].fNVars
           /\ Len(objs'[x].fVarsString) = objs'[x].fNVarsString
    ]_vars

\* C8, its case: a storage that held values was allocated again with both
\* sizes positive.
C8_Witness ==
  /\ lastOp.op = "AllocateInternalStorage"
  /\ lastOp.dirty
  /\ lastOp.size > 0
  /\ lastOp.sizeString > 0
  /\ objs[lastOp.this].fNVars = lastOp.size
  /\ ~HoldsValues(objs[lastOp.this])

\* C9: when the sampling yields an acceptable candidate again and again,
\* Generate returns; on return exactly fNpart parents are registered, each
\* with theta in [fThetaMin, fThetaMax] and ptot in [fPMin, fPMax]; a pass
\* whose candidate fails the theta or the momentum cut registers nothing and
\* does not count.
C9_Generate ==
  /\ [](gen.pc = "done" =>
          /\ Len(gen.tracks) = genPar.fNpart
          /\ \A i \in 1..Len(gen.tracks) :
               /\ genPar.fThetaMin <= gen.tracks[i].theta
               /\ gen.tracks[i].theta <= genPar.fThetaMax
               /\ genPar.fPMin <= gen.tracks[i].ptot
               /\ gen.tracks[i].ptot <= genPar.fPMax)
  /\ ((gen.pc = "loop") ~> (gen.pc = "done"))
  /\ [][ (/\ gen.pc = "loop" /\ gen'.pc = "loop"
          /\ \/ gen'.last[1].theta < genPar.fThetaMin
             \/ gen'.last[1].theta > genPar.fThetaMax
             \/ gen'.last[1].ptot < genPar.fPMin
             \/ gen'.last[1].ptot > genPar.fPMax)
         => gen'.tracks = gen.tracks /\ gen'.ipa = gen.ipa
     ]_vars

\* C9, its case: Generate returned with the parents asked for, under
\* windows that exclude some candidates and with the cut on the children.
C9_Witness ==
  /\ gen.pc = "done"
  /\ genPar.fNpart = MaxNpart
  /\ Len(gen.tracks) = MaxNpart
  /\ genPar.fThetaMin > 0
  /\ genPar.fPMax < MaxKin
  /\ genPar.fCutOnChild
====
